---- MODULE Spec2Model ----
(***************************************************************************)
(* The LendingPlatform ledger (LendingPlatform.sol) together with the      *)
(* MockUSDC collateral token, as one serially ordered state machine.  Each *)
(* transaction is one atomic step: it either commits every effect of the   *)
(* called function or reverts to the state it started from.  Amounts are   *)
(* counted in whole units of the asset; gas is not modelled.               *)
(***************************************************************************)
EXTENDS Integers, Sequences, FiniteSets, TLC

\* ------------------------------------------------------------ bounds
MaxLoans == 2      \* successful applications explored
MaxAmt == 1        \* largest collateral amount / native value / mint amount
MaxHandlers == 2     \* handler invocations of the page in flight at once
ModelDecimals == 3  \* decimals of the chain unit (18 for 'ether'; TLC integers end at 2^31)

\* ------------------------------------------------------------ program constants
MaxScore == 100            \* require(_score <= 100)
MaxUint256 == 2147483647   \* stand-in for ethers.MaxUint256 (unlimited allowance)
DeployerMint == 1000000    \* MockUSDC constructor mints 1M tokens to its deployer

TEST_PRINCIPAL == 10       \* oracle-service/index.js
TEST_TENURE == 12
TEST_COLLATERAL == 5

\* ------------------------------------------------------------ identities
ZeroAddress == "address(0)"         \* collateralToken of an ETH loan
This == "LendingPlatform"           \* address(this)
USDC == "MockUSDC"                  \* the deployed collateral token
Deployer == "deployer"              \* hardhat account #0
Oracle == "oracle"                  \* hardhat account #1
Users == {Oracle, "b1", "b2"}      \* the accounts that send transactions
Holders == Users \cup {This, Deployer}
TokenIds == {USDC}
CollateralTokens == {ZeroAddress} \cup TokenIds
None == "none"

\* ------------------------------------------------------------ inputs
Amounts == 0 .. MaxAmt
Principals == {10}
Tenures == {12}
ApproveAmounts == Amounts \cup {MaxUint256}
InitialEth == MaxLoans * MaxAmt     \* native funds of each user at the start
MaxSupply == MaxAmt                 \* cap on the tokens minted after deployment
\* Spec: every operation of both contracts, one borrower, few scores
Senders == {Oracle, "b1"}
Scored == {"b1"}
Scores == {0, 60, MaxScore + 1}
Minters == {"b1"}
Applicants == {"b1"}
\* SpecScores: the registry and the rate, over more scores
ScoreInputs == {0, 1, 60, MaxScore, MaxScore + 1}
\* SpecTrace: the end-to-end scenario (score 50, native collateral 5, token collateral 3)
TraceScores == {0, 50, MaxScore + 1}
TraceAmounts == {3, TEST_COLLATERAL}
TraceValues == {0} \cup TraceAmounts
TraceFunds == MaxLoans * TEST_COLLATERAL

VARIABLES
    loans,                \* Loan[] public loans
    trustedOracle,        \* address public trustedOracle
    borrowerRiskScore,    \* mapping(address => uint256)
    supportedCollateral,  \* mapping(address => bool)
    nextLoanId,           \* uint256 public nextLoanId
    eth,                  \* native balance of every account, the ledger included
    balanceOf,            \* MockUSDC balances
    allowance,            \* MockUSDC allowances, allowance[owner][spender]
    lastCall,             \* the transaction of the last step and how it ended
    lastEvents,           \* the events the last transaction emitted
    pre,                  \* the state the last transaction started from
    scoreWriter,          \* history: msg.sender of the latest write of each score
    collateralWriter,     \* history: msg.sender of the write that listed a token
    retry,                \* history: an application rejected as unsupported, then retried
    oracleRun,            \* the oracle script's run: position, prices, score, steps
    ui                    \* the page: React state, the price loop, the running handlers

vars == <<loans, trustedOracle, borrowerRiskScore, supportedCollateral, nextLoanId,
          eth, balanceOf, allowance, lastCall, lastEvents, pre, scoreWriter,
          collateralWriter, retry, oracleRun, ui>>

\* The chain state as one value.
State == [loans |-> loans, trustedOracle |-> trustedOracle,
          borrowerRiskScore |-> borrowerRiskScore,
          supportedCollateral |-> supportedCollateral, nextLoanId |-> nextLoanId,
          eth |-> eth, balanceOf |-> balanceOf, allowance |-> allowance]

\* ------------------------------------------------------------ LendingPlatform.sol
Loan(id, b, p, r, t, ca, ct, rep) ==
    [loanId |-> id, borrower |-> b, principal |-> p, interestRate |-> r, tenure |-> t,
     collateralAmount |-> ca, collateralToken |-> ct, isRepaid |-> rep]

ScoreUpdated(b, sc) == [name |-> "ScoreUpdated", borrower |-> b, score |-> sc]
CollateralAdded(t) == [name |-> "CollateralAdded", token |-> t]
LoanDisbursed(id, b, p, r, ct, ca) ==
    [name |-> "LoanDisbursed", loanId |-> id, borrower |-> b, principal |-> p,
     rate |-> r, collateralToken |-> ct, collateralAmount |-> ca]

\* Faulty variant: a failed require reports the error but keeps the effects made so far.
RevertKeepsEffects(start, cur, e) == [err |-> e, state |-> cur, events |-> <<>>]

\* A failed require: every effect of the transaction so far (cur) is undone.
Revert(start, cur, e) == [err |-> e, state |-> start, events |-> <<>>]
Return(cur, evs) == [err |-> "ok", state |-> cur, events |-> evs]

\* Faulty variant: the modifier lets every caller through.
onlyOracleAnyCaller(s, sender) == TRUE

\* modifier onlyOracle
onlyOracle(s, sender) == sender = s.trustedOracle

\* Faulty variant: the range check runs before the caller check.
setRiskScoreRangeFirst(s, sender, _borrower, _score) ==
    IF ~(_score <= MaxScore) THEN Revert(s, s, "InvalidScore")
    ELSE IF ~onlyOracle(s, sender) THEN Revert(s, s, "Unauthorized")
    ELSE Return([s EXCEPT !.borrowerRiskScore[_borrower] = _score],
                <<ScoreUpdated(_borrower, _score)>>)

\* Faulty variant: the range check is off by one and accepts 101.
setRiskScoreOffByOne(s, sender, _borrower, _score) ==
    IF ~onlyOracle(s, sender) THEN Revert(s, s, "Unauthorized")
    ELSE IF ~(_score <= MaxScore + 1) THEN Revert(s, s, "InvalidScore")
    ELSE Return([s EXCEPT !.borrowerRiskScore[_borrower] = _score],
                <<ScoreUpdated(_borrower, _score)>>)

\* Faulty variant: a new non-zero score reprices the borrower's existing loans.
setRiskScoreRepricesLoans(s, sender, _borrower, _score) ==
    IF ~onlyOracle(s, sender) THEN Revert(s, s, "Unauthorized")
    ELSE IF ~(_score <= MaxScore) THEN Revert(s, s, "InvalidScore")
    ELSE Return([s EXCEPT !.borrowerRiskScore[_borrower] = _score,
                          !.loans = [i \in 1 .. Len(@) |->
                                       IF @[i].borrower = _borrower /\ _score > 0
                                       THEN [@[i] EXCEPT !.interestRate = 100 \div _score]
                                       ELSE @[i]]],
                <<ScoreUpdated(_borrower, _score)>>)

\* Faulty variant: writing the value already stored emits nothing.
setRiskScoreSilentWhenSame(s, sender, _borrower, _score) ==
    IF ~onlyOracle(s, sender) THEN Revert(s, s, "Unauthorized")
    ELSE IF ~(_score <= MaxScore) THEN Revert(s, s, "InvalidScore")
    ELSE Return([s EXCEPT !.borrowerRiskScore[_borrower] = _score],
                IF s.borrowerRiskScore[_borrower] = _score THEN <<>>
                ELSE <<ScoreUpdated(_borrower, _score)>>)

setRiskScore(s, sender, _borrower, _score) ==
    IF ~onlyOracle(s, sender) THEN Revert(s, s, "Unauthorized")
    ELSE IF ~(_score <= MaxScore) THEN Revert(s, s, "InvalidScore")
    ELSE Return([s EXCEPT !.borrowerRiskScore[_borrower] = _score],
                <<ScoreUpdated(_borrower, _score)>>)

\* Faulty variant: the listed address is stored in trustedOracle as well.
addCollateralTokenReplacesOracle(s, sender, _token) ==
    IF ~onlyOracle(s, sender) THEN Revert(s, s, "Unauthorized")
    ELSE Return([s EXCEPT !.supportedCollateral[_token] = TRUE, !.trustedOracle = _token],
                <<CollateralAdded(_token)>>)

\* Faulty variant: the event is emitted but the whitelist entry is not written.
addCollateralTokenNoWrite(s, sender, _token) ==
    IF ~onlyOracle(s, sender) THEN Revert(s, s, "Unauthorized")
    ELSE Return(s, <<CollateralAdded(_token)>>)

\* Faulty variant: adding a listed token takes it off the list.
addCollateralTokenToggles(s, sender, _token) ==
    IF ~onlyOracle(s, sender) THEN Revert(s, s, "Unauthorized")
    ELSE Return([s EXCEPT !.supportedCollateral[_token] = ~@], <<CollateralAdded(_token)>>)

addCollateralToken(s, sender, _token) ==
    IF ~onlyOracle(s, sender) THEN Revert(s, s, "Unauthorized")
    ELSE Return([s EXCEPT !.supportedCollateral[_token] = TRUE],
                <<CollateralAdded(_token)>>)

\* What a reader of the registry gets: the public getter borrowerRiskScore(b),
\* and "has been scored" as applyForLoan tests it (riskScore > 0).
getScore(s, b) == [score |-> s.borrowerRiskScore[b], present |-> s.borrowerRiskScore[b] > 0]

\* ------------------------------------------------------------ MockUSDC (ERC20)
\* ERC20.transferFrom called by spender: the allowance is spent first (an
\* allowance of MaxUint256 is unlimited and is not reduced), then the balance
\* moves; either step reverts when the amount is not covered.
\* Faulty variant: a finite allowance is checked but not reduced.
spendAllowanceKeepsAllowance(s, owner, spender, amount) ==
    LET cur == s.allowance[owner][spender] IN
    IF cur = MaxUint256 THEN [reverted |-> FALSE, state |-> s]
    ELSE IF cur < amount THEN [reverted |-> TRUE, state |-> s]
    ELSE [reverted |-> FALSE, state |-> s]

spendAllowance(s, owner, spender, amount) ==
    LET cur == s.allowance[owner][spender] IN
    IF cur = MaxUint256 THEN [reverted |-> FALSE, state |-> s]
    ELSE IF cur < amount THEN [reverted |-> TRUE, state |-> s]
    ELSE [reverted |-> FALSE,
          state |-> [s EXCEPT !.allowance[owner][spender] = cur - amount]]

transfer(s, from, to, amount) ==
    IF s.balanceOf[from] < amount THEN [reverted |-> TRUE, state |-> s]
    ELSE [reverted |-> FALSE,
          state |-> [s EXCEPT !.balanceOf =
                        [h \in Holders |->
                            s.balanceOf[h] - (IF h = from THEN amount ELSE 0)
                                           + (IF h = to THEN amount ELSE 0)]]]

transferFrom(s, spender, from, to, amount) ==
    LET a == spendAllowance(s, from, spender, amount) IN
    IF a.reverted THEN [success |-> FALSE, reverted |-> TRUE, state |-> a.state]
    ELSE LET t == transfer(a.state, from, to, amount) IN
         [success |-> ~t.reverted, reverted |-> t.reverted, state |-> t.state]

mint(s, to, amount) == Return([s EXCEPT !.balanceOf[to] = @ + amount], <<>>)

approve(s, owner, spender, amount) ==
    Return([s EXCEPT !.allowance[owner][spender] = amount], <<>>)

\* ------------------------------------------------------------ applyForLoan
\* Faulty variant: the quotient is rounded up.
finalRateRoundedUp(riskScore) == (100 + riskScore - 1) \div riskScore

\* Faulty variant: the operands of the division are swapped.
finalRateSwapped(riskScore) == riskScore \div 100

\* Faulty variant: the rate is the score's complement to 100.
finalRateComplement(riskScore) == 100 - riskScore

finalRate(riskScore) == 100 \div riskScore

\* msg.value moves to the contract as the call starts.
payable(s, sender, value) ==
    [s EXCEPT !.eth = [h \in DOMAIN s.eth |->
                          s.eth[h] - (IF h = sender THEN value ELSE 0)
                                   + (IF h = This THEN value ELSE 0)]]

\* Faulty variant: nextLoanId++ is missing.
disburseNoIncrement(start, s, sender, _principal, _tenure, _collateralAmount, _collateralToken, riskScore) ==
    IF riskScore = 0 THEN Revert(start, s, "DivisionByZero") ELSE
    LET rate == finalRate(riskScore)
        pushed == [s EXCEPT !.loans = Append(@, Loan(s.nextLoanId, sender, _principal, rate,
                                      _tenure, _collateralAmount, _collateralToken, FALSE))]
    IN Return(pushed, <<LoanDisbursed(pushed.nextLoanId, sender, _principal, rate,
                                       _collateralToken, _collateralAmount)>>)

\* Faulty variant: the principal is credited to the borrower.
disbursePaysPrincipal(start, s, sender, _principal, _tenure, _collateralAmount, _collateralToken, riskScore) ==
    IF riskScore = 0 THEN Revert(start, s, "DivisionByZero") ELSE
    LET rate == finalRate(riskScore)
        pushed == [s EXCEPT !.loans = Append(@, Loan(s.nextLoanId, sender, _principal, rate,
                                      _tenure, _collateralAmount, _collateralToken, FALSE))]
        bumped == [pushed EXCEPT !.nextLoanId = @ + 1, !.eth[sender] = @ + _principal]
    IN Return(bumped, <<LoanDisbursed(bumped.nextLoanId - 1, sender, _principal, rate,
                                       _collateralToken, _collateralAmount)>>)

\* Faulty variant: the loan is stored as repaid.
disburseMarksRepaid(start, s, sender, _principal, _tenure, _collateralAmount, _collateralToken, riskScore) ==
    IF riskScore = 0 THEN Revert(start, s, "DivisionByZero") ELSE
    LET rate == finalRate(riskScore)
        pushed == [s EXCEPT !.loans = Append(@, Loan(s.nextLoanId, sender, _principal, rate,
                                      _tenure, _collateralAmount, _collateralToken, TRUE))]
        bumped == [pushed EXCEPT !.nextLoanId = @ + 1]
    IN Return(bumped, <<LoanDisbursed(bumped.nextLoanId - 1, sender, _principal, rate,
                                       _collateralToken, _collateralAmount)>>)

\* Faulty variant: the event carries nextLoanId as it is after the increment.
disburseEmitsNextId(start, s, sender, _principal, _tenure, _collateralAmount, _collateralToken, riskScore) ==
    IF riskScore = 0 THEN Revert(start, s, "DivisionByZero") ELSE
    LET rate == finalRate(riskScore)
        pushed == [s EXCEPT !.loans = Append(@, Loan(s.nextLoanId, sender, _principal, rate,
                                      _tenure, _collateralAmount, _collateralToken, FALSE))]
        bumped == [pushed EXCEPT !.nextLoanId = @ + 1]
    IN Return(bumped, <<LoanDisbursed(bumped.nextLoanId, sender, _principal, rate,
                                       _collateralToken, _collateralAmount)>>)

\* lines 84-105: rate (a division by zero panics and reverts), loans.push,
\* nextLoanId++, emit
disburse(start, s, sender, _principal, _tenure, _collateralAmount, _collateralToken, riskScore) ==
    IF riskScore = 0 THEN Revert(start, s, "DivisionByZero") ELSE
    LET rate == finalRate(riskScore)
        pushed == [s EXCEPT !.loans = Append(@, Loan(s.nextLoanId, sender, _principal, rate,
                                      _tenure, _collateralAmount, _collateralToken, FALSE))]
        bumped == [pushed EXCEPT !.nextLoanId = @ + 1]
    IN Return(bumped, <<LoanDisbursed(bumped.nextLoanId - 1, sender, _principal, rate,
                                       _collateralToken, _collateralAmount)>>)

\* Faulty variant: the score is checked after the collateral handling.
applyForLoanScoreLast(s, sender, value, _principal, _tenure, _collateralAmount, _collateralToken) ==
    LET s1 == payable(s, sender, value)
        riskScore == s1.borrowerRiskScore[sender]
    IN
    IF _collateralToken = ZeroAddress
    THEN IF ~(value = _collateralAmount) THEN Revert(s, s1, "CollateralMismatch")
         ELSE IF ~(riskScore > 0) THEN Revert(s, s1, "NotScored")
         ELSE disburse(s, s1, sender, _principal, _tenure, _collateralAmount,
                       _collateralToken, riskScore)
    ELSE IF ~s1.supportedCollateral[_collateralToken]
         THEN Revert(s, s1, "UnsupportedCollateral")
    ELSE IF ~(value = 0) THEN Revert(s, s1, "UnexpectedNativeValue")
    ELSE LET t == transferFrom(s1, This, sender, This, _collateralAmount) IN
         IF t.reverted \/ ~t.success THEN Revert(s, t.state, "TransferFailed")
         ELSE IF ~(riskScore > 0) THEN Revert(s, t.state, "NotScored")
         ELSE disburse(s, t.state, sender, _principal, _tenure, _collateralAmount,
                       _collateralToken, riskScore)

\* Faulty variant: native value sent along with token collateral is accepted.
applyForLoanKeepsNativeValue(s, sender, value, _principal, _tenure, _collateralAmount, _collateralToken) ==
    LET s1 == payable(s, sender, value)
        riskScore == s1.borrowerRiskScore[sender]
    IN
    IF ~(riskScore > 0) THEN Revert(s, s1, "NotScored")
    ELSE IF _collateralToken = ZeroAddress
    THEN IF ~(value = _collateralAmount) THEN Revert(s, s1, "CollateralMismatch")
         ELSE disburse(s, s1, sender, _principal, _tenure, _collateralAmount,
                       _collateralToken, riskScore)
    ELSE IF ~s1.supportedCollateral[_collateralToken]
         THEN Revert(s, s1, "UnsupportedCollateral")
    ELSE LET t == transferFrom(s1, This, sender, This, _collateralAmount) IN
         IF t.reverted \/ ~t.success THEN Revert(s, t.state, "TransferFailed")
         ELSE disburse(s, t.state, sender, _principal, _tenure, _collateralAmount,
                       _collateralToken, riskScore)

\* Faulty variant: token collateral is recorded without being pulled from the borrower.
applyForLoanNoPull(s, sender, value, _principal, _tenure, _collateralAmount, _collateralToken) ==
    LET s1 == payable(s, sender, value)
        riskScore == s1.borrowerRiskScore[sender]
    IN
    IF ~(riskScore > 0) THEN Revert(s, s1, "NotScored")
    ELSE IF _collateralToken = ZeroAddress
    THEN IF ~(value = _collateralAmount) THEN Revert(s, s1, "CollateralMismatch")
         ELSE disburse(s, s1, sender, _principal, _tenure, _collateralAmount,
                       _collateralToken, riskScore)
    ELSE IF ~s1.supportedCollateral[_collateralToken]
         THEN Revert(s, s1, "UnsupportedCollateral")
    ELSE IF ~(value = 0) THEN Revert(s, s1, "UnexpectedNativeValue")
    ELSE disburse(s, s1, sender, _principal, _tenure, _collateralAmount,
                  _collateralToken, riskScore)

\* Faulty variant: the native value is checked before the whitelist.
applyForLoanValueBeforeWhitelist(s, sender, value, _principal, _tenure, _collateralAmount, _collateralToken) ==
    LET s1 == payable(s, sender, value)
        riskScore == s1.borrowerRiskScore[sender]
    IN
    IF ~(riskScore > 0) THEN Revert(s, s1, "NotScored")
    ELSE IF _collateralToken = ZeroAddress
    THEN IF ~(value = _collateralAmount) THEN Revert(s, s1, "CollateralMismatch")
         ELSE disburse(s, s1, sender, _principal, _tenure, _collateralAmount,
                       _collateralToken, riskScore)
    ELSE IF ~(value = 0) THEN Revert(s, s1, "UnexpectedNativeValue")
    ELSE IF ~s1.supportedCollateral[_collateralToken]
         THEN Revert(s, s1, "UnsupportedCollateral")
    ELSE LET t == transferFrom(s1, This, sender, This, _collateralAmount) IN
         IF t.reverted \/ ~t.success THEN Revert(s, t.state, "TransferFailed")
         ELSE disburse(s, t.state, sender, _principal, _tenure, _collateralAmount,
                       _collateralToken, riskScore)

\* Faulty variant: native value sent along with token collateral is accepted.
applyForLoanAcceptsValueWithToken(s, sender, value, _principal, _tenure, _collateralAmount, _collateralToken) ==
    LET s1 == payable(s, sender, value)
        riskScore == s1.borrowerRiskScore[sender]
    IN
    IF ~(riskScore > 0) THEN Revert(s, s1, "NotScored")
    ELSE IF _collateralToken = ZeroAddress
    THEN IF ~(value = _collateralAmount) THEN Revert(s, s1, "CollateralMismatch")
         ELSE disburse(s, s1, sender, _principal, _tenure, _collateralAmount,
                       _collateralToken, riskScore)
    ELSE IF ~s1.supportedCollateral[_collateralToken]
         THEN Revert(s, s1, "UnsupportedCollateral")
    ELSE LET t == transferFrom(s1, This, sender, This, _collateralAmount) IN
         IF t.reverted \/ ~t.success THEN Revert(s, t.state, "TransferFailed")
         ELSE disburse(s, t.state, sender, _principal, _tenure, _collateralAmount,
                       _collateralToken, riskScore)

\* Faulty variant: the rate is taken from the score of the borrower of the
\* latest loan, when there is one.
applyForLoanScoreOfLastBorrower(s, sender, value, _principal, _tenure, _collateralAmount, _collateralToken) ==
    LET s1 == payable(s, sender, value)
        riskScore == s1.borrowerRiskScore[sender]
        used == IF s1.loans = <<>> THEN riskScore
                ELSE s1.borrowerRiskScore[s1.loans[Len(s1.loans)].borrower]
    IN
    IF ~(riskScore > 0) THEN Revert(s, s1, "NotScored")
    ELSE IF _collateralToken = ZeroAddress
    THEN IF ~(value = _collateralAmount) THEN Revert(s, s1, "CollateralMismatch")
         ELSE disburse(s, s1, sender, _principal, _tenure, _collateralAmount,
                       _collateralToken, used)
    ELSE IF ~s1.supportedCollateral[_collateralToken]
         THEN Revert(s, s1, "UnsupportedCollateral")
    ELSE IF ~(value = 0) THEN Revert(s, s1, "UnexpectedNativeValue")
    ELSE LET t == transferFrom(s1, This, sender, This, _collateralAmount) IN
         IF t.reverted \/ ~t.success THEN Revert(s, t.state, "TransferFailed")
         ELSE disburse(s, t.state, sender, _principal, _tenure, _collateralAmount,
                       _collateralToken, used)

\* Faulty variant: the score is not checked at all.
applyForLoanNoScoreGuard(s, sender, value, _principal, _tenure, _collateralAmount, _collateralToken) ==
    LET s1 == payable(s, sender, value)
        riskScore == s1.borrowerRiskScore[sender]
    IN
    IF _collateralToken = ZeroAddress
    THEN IF ~(value = _collateralAmount) THEN Revert(s, s1, "CollateralMismatch")
         ELSE disburse(s, s1, sender, _principal, _tenure, _collateralAmount,
                       _collateralToken, riskScore)
    ELSE IF ~s1.supportedCollateral[_collateralToken]
         THEN Revert(s, s1, "UnsupportedCollateral")
    ELSE IF ~(value = 0) THEN Revert(s, s1, "UnexpectedNativeValue")
    ELSE LET t == transferFrom(s1, This, sender, This, _collateralAmount) IN
         IF t.reverted \/ ~t.success THEN Revert(s, t.state, "TransferFailed")
         ELSE disburse(s, t.state, sender, _principal, _tenure, _collateralAmount,
                       _collateralToken, riskScore)

applyForLoan(s, sender, value, _principal, _tenure, _collateralAmount, _collateralToken) ==
    LET s1 == payable(s, sender, value)
        riskScore == s1.borrowerRiskScore[sender]
    IN
    IF ~(riskScore > 0) THEN Revert(s, s1, "NotScored")
    ELSE IF _collateralToken = ZeroAddress
    THEN IF ~(value = _collateralAmount) THEN Revert(s, s1, "CollateralMismatch")
         ELSE disburse(s, s1, sender, _principal, _tenure, _collateralAmount,
                       _collateralToken, riskScore)
    ELSE IF ~s1.supportedCollateral[_collateralToken]
         THEN Revert(s, s1, "UnsupportedCollateral")
    ELSE IF ~(value = 0) THEN Revert(s, s1, "UnexpectedNativeValue")
    ELSE LET t == transferFrom(s1, This, sender, This, _collateralAmount) IN
         IF t.reverted \/ ~t.success THEN Revert(s, t.state, "TransferFailed")
         ELSE disburse(s, t.state, sender, _principal, _tenure, _collateralAmount,
                       _collateralToken, riskScore)

\* ------------------------------------------------------------ markRepaid
\* Not part of the contract's source: the repayment operation as the design
\* describes it.  It may be invoked only on an unrepaid loan belonging to the
\* caller; a repeated attempt fails with AlreadyRepaid.  Loan i is loans[i].
\* Faulty variant: anyone may mark a loan repaid.
markRepaidAnyCaller(s, sender, _loanId) ==
    IF _loanId \notin 1 .. Len(s.loans) THEN Revert(s, s, "NoSuchLoan")
    ELSE IF s.loans[_loanId].isRepaid THEN Revert(s, s, "AlreadyRepaid")
    ELSE Return([s EXCEPT !.loans[_loanId].isRepaid = TRUE], <<>>)

markRepaid(s, sender, _loanId) ==
    IF _loanId \notin 1 .. Len(s.loans) THEN Revert(s, s, "NoSuchLoan")
    ELSE IF s.loans[_loanId].borrower # sender THEN Revert(s, s, "NotBorrower")
    ELSE IF s.loans[_loanId].isRepaid THEN Revert(s, s, "AlreadyRepaid")
    ELSE Return([s EXCEPT !.loans[_loanId].isRepaid = TRUE], <<>>)

\* ------------------------------------------------------------ the oracle script
\* oracle-service/index.js and backend_oracle.js (the same code twice).
BORROWER_ADDRESS == Oracle        \* Hardhat account #1, the oracle's own address
FallbackUsd == 3000
FallbackInr == 250000
Unset == 0 - 1

\* What axios.get can give: a rejected request, a body without quotes, a body
\* with the ethereum quotes.
UsdQuotes == {FallbackUsd, 3500}
InrQuotes == {FallbackInr, 290000}
RequestFailed == [status |-> "error"]
Body(d) == [status |-> "ok", data |-> d]
QuoteBody(u, i) == Body([ethereum |-> [usd |-> u, inr |-> i]])
PriceResponses ==
    {RequestFailed, Body([message |-> "none"])}
        \cup {QuoteBody(u, i) : u \in UsdQuotes, i \in InrQuotes}

Returned(v) == [threw |-> FALSE, value |-> v]
Threw == [threw |-> TRUE, value |-> [usd |-> Unset, inr |-> Unset]]

\* Faulty variant: no catch around the request.
getEthPriceNoCatch(response) ==
    IF response.status # "ok" THEN Threw
    ELSE IF "ethereum" \notin DOMAIN response.data THEN Threw
    ELSE Returned([usd |-> response.data.ethereum.usd, inr |-> response.data.ethereum.inr])

\* getEthPrice: the rejected request and the TypeError of reading .usd of a
\* missing response.data.ethereum both land in the catch.
getEthPrice(response) ==
    IF response.status # "ok" THEN Returned([usd |-> FallbackUsd, inr |-> FallbackInr])
    ELSE IF "ethereum" \notin DOMAIN response.data
    THEN Returned([usd |-> FallbackUsd, inr |-> FallbackInr])
    ELSE Returned([usd |-> response.data.ethereum.usd, inr |-> response.data.ethereum.inr])

\* What exec of the risk model can give: a process error, output that is not
\* JSON, JSON with an error field, JSON with a score and the explanation list,
\* JSON with a score but no explanation (forEach of undefined throws inside
\* the try).
ModelScores == {0, 50, MaxScore + 1}
ProcessFailed == [error |-> TRUE, parses |-> FALSE, json |-> [error |-> "exec"]]
Garbage == [error |-> FALSE, parses |-> FALSE, json |-> [error |-> "none"]]
Stdout(j) == [error |-> FALSE, parses |-> TRUE, json |-> j]
ModelOutcomes ==
    {ProcessFailed, Garbage, Stdout([error |-> "model"]), Stdout([score |-> 50])}
        \cup {Stdout([score |-> sc, explanation |-> <<>>]) : sc \in ModelScores}

\* getMlRiskScore: the command line carries the loan parameters and both
\* prices (TEST_COLLATERAL_TYPE is 'ETH', so the collateral goes unconverted).
getMlRiskScore(principal, tenure, collateral, ethPriceUsd, ethPriceInr, proc) ==
    LET command == <<BORROWER_ADDRESS, principal, tenure, collateral, ethPriceUsd, ethPriceInr>> IN
    IF proc.error THEN [rejected |-> TRUE, score |-> Unset, command |-> command]
    ELSE IF ~proc.parses THEN [rejected |-> TRUE, score |-> Unset, command |-> command]
    ELSE IF "error" \in DOMAIN proc.json
    THEN [rejected |-> TRUE, score |-> Unset, command |-> command]
    ELSE IF "explanation" \notin DOMAIN proc.json
    THEN [rejected |-> TRUE, score |-> Unset, command |-> command]
    ELSE [rejected |-> FALSE, score |-> proc.json.score, command |-> command]

NotStarted ==
    [pc |-> "price", response |-> RequestFailed,
     prices |-> [usd |-> Unset, inr |-> Unset], command |-> <<>>,
     dynamicScore |-> Unset, recordedScore |-> Unset, steps |-> <<>>, failedAt |-> "none",
     proc |-> ProcessFailed, scoreAtStart |-> 0]

\* ------------------------------------------------------------ the UI
\* unnamed/part_001 (the React page).  What the user types is a decimal; the
\* model keeps it in tenths (5 is "0.5", 20 is "2").  'ether' means 18
\* decimals; the model's chain unit has ModelDecimals decimals, so that one
\* whole unit typed is 10^ModelDecimals on chain.
parseInt(tenths) == tenths \div 10
parseUnits(tenths) == tenths * 10 ^ (ModelDecimals - 1)
formatUnits(amount) == amount \div 10 ^ (ModelDecimals - 1)

NotSubmitted ==
    [submitted |-> FALSE, principal |-> 0, tenure |-> 0, amount |-> 0,
     token |-> ZeroAddress, value |-> 0]

\* handleApplyLoan up to the contract call: the arguments and the value it
\* sends, or nothing when validation or the allowance check stops it.
handleApplyLoan(principal, tenure, collateral, selectedToken, usdcAllowance) ==
    IF principal <= 0 \/ tenure <= 0 \/ collateral < 0 THEN NotSubmitted
    ELSE LET finalCollateralWei == parseUnits(collateral) IN
         IF selectedToken = "ETH"
         THEN [submitted |-> TRUE, principal |-> parseInt(principal), tenure |-> tenure,
               amount |-> parseInt(collateral), token |-> ZeroAddress,
               value |-> finalCollateralWei]
         ELSE IF usdcAllowance < collateral THEN NotSubmitted
         ELSE [submitted |-> TRUE, principal |-> parseInt(principal), tenure |-> tenure,
               amount |-> finalCollateralWei, token |-> USDC, value |-> 0]

\* fetchEthPrice: what fetch can give is a rejected request, a response that
\* is not ok, a body that is not JSON, a body without quotes, a body with quotes.
DefaultRetries == 3
FetchOutcomes ==
    {[status |-> "rejected"], [status |-> "notOk"], [status |-> "badJson"],
     Body([message |-> "none"])}
        \cup {QuoteBody(u, i) : u \in UsdQuotes, i \in InrQuotes}

\* Faulty variant: a retry is also scheduled when retries has reached 0.
fetchEthPriceRetriesAtZero(retries, response) ==
    IF response.status # "ok"
    THEN [failed |-> TRUE, setEthPrices |-> FALSE, retry |-> retries >= 0, next |-> retries - 1]
    ELSE [failed |-> FALSE, setEthPrices |-> "ethereum" \in DOMAIN response.data,
          retry |-> FALSE, next |-> retries]

\* One call fetchEthPrice(retries) whose request ended as `response`: whether
\* the prices are set, and whether the catch schedules fetchEthPrice(next).
fetchEthPrice(retries, response) ==
    IF response.status # "ok"
    THEN [failed |-> TRUE, setEthPrices |-> FALSE, retry |-> retries > 0, next |-> retries - 1]
    ELSE [failed |-> FALSE, setEthPrices |-> "ethereum" \in DOMAIN response.data,
          retry |-> FALSE, next |-> retries]

\* A handler that is not running.
NoHandler == [kind |-> "none", pc |-> "none", setPending |-> FALSE, call |-> NotSubmitted]

\* The page as mounted: useState defaults, and the mount effect has called
\* fetchEthPrice() with the default retries.
PageMounted ==
    [fetch |-> [pc |-> "calling", retries |-> DefaultRetries, attempts |-> 0,
                response |-> [status |-> "none"]],
     ethPrices |-> [usd |-> Unset, inr |-> Unset],
     riskScore |-> Unset,
     usdcAllowance |-> 0,
     isTxPending |-> FALSE,
     handlers |-> [k \in 1 .. MaxHandlers |-> NoHandler]]

\* disabled={riskScore == null || riskScore === 0 || isTxPending}
submitDisabled(page) == page.riskScore = Unset \/ page.riskScore = 0 \/ page.isTxPending

\* Faulty variant: the finally block is missing.
finallyMissing(page, k) ==
    [page EXCEPT !.handlers[k] = NoHandler]

\* finally { setIsTxPending(false) }: handler k is over.
finally(page, k) ==
    [page EXCEPT !.isTxPending = FALSE, !.handlers[k] = NoHandler]

\* ------------------------------------------------------------ the state machine
Call(op, sender, b, sc, tok, p, t, ca, v) ==
    [op |-> op, sender |-> sender, borrower |-> b, score |-> sc, token |-> tok,
     principal |-> p, tenure |-> t, amount |-> ca, value |-> v, err |-> "ok"]

NoCall == Call("constructor", Deployer, None, 0, None, 0, 0, 0, 0)

\* constructor(_oracle), as run by scripts/deploy.js with _oracle = account #1
Init ==
    /\ loans = <<>>
    /\ trustedOracle = Oracle
    /\ borrowerRiskScore = [u \in Users |-> 0]
    /\ supportedCollateral = [t \in TokenIds |-> FALSE]
    /\ nextLoanId = 1
    /\ eth = [h \in Users \cup {This} |-> IF h = This THEN 0 ELSE InitialEth]
    /\ balanceOf = [h \in Holders |-> IF h = Deployer THEN DeployerMint ELSE 0]
    /\ allowance = [o \in Users |-> [sp \in {This} |-> 0]]
    /\ lastCall = NoCall
    /\ lastEvents = <<>>
    /\ pre = State
    /\ scoreWriter = [u \in Users |-> None]
    /\ collateralWriter = [t \in TokenIds |-> None]
    /\ retry = [stage |-> "none"]
    /\ oracleRun = NotStarted
    /\ ui = PageMounted

\* The transaction `call` ended as r: the chain takes r.state.
Commit(r, call) ==
    /\ loans' = r.state.loans
    /\ trustedOracle' = r.state.trustedOracle
    /\ borrowerRiskScore' = r.state.borrowerRiskScore
    /\ supportedCollateral' = r.state.supportedCollateral
    /\ nextLoanId' = r.state.nextLoanId
    /\ eth' = r.state.eth
    /\ balanceOf' = r.state.balanceOf
    /\ allowance' = r.state.allowance
    /\ lastCall' = [call EXCEPT !.err = r.err]
    /\ lastEvents' = r.events
    /\ pre' = State

SetRiskScore(sender, b, sc) ==
    LET r == setRiskScore(State, sender, b, sc) IN
    /\ Commit(r, Call("setRiskScore", sender, b, sc, None, 0, 0, 0, 0))
    /\ scoreWriter' = IF r.err = "ok" THEN [scoreWriter EXCEPT ![b] = sender]
                      ELSE scoreWriter
    /\ retry' = [stage |-> "none"]
    /\ UNCHANGED <<collateralWriter, oracleRun, ui>>

AddCollateralToken(sender, tok) ==
    LET r == addCollateralToken(State, sender, tok) IN
    /\ Commit(r, Call("addCollateralToken", sender, None, 0, tok, 0, 0, 0, 0))
    /\ collateralWriter' = IF r.err = "ok" THEN [collateralWriter EXCEPT ![tok] = sender]
                           ELSE collateralWriter
    /\ retry' = IF r.err = "ok" /\ retry.stage = "rejected" /\ retry.call.token = tok
                THEN [retry EXCEPT !.stage = "listed"]
                ELSE [stage |-> "none"]
    /\ UNCHANGED <<scoreWriter, oracleRun, ui>>

ApplyForLoan(sender, v, p, t, ca, ct) ==
    LET r == applyForLoan(State, sender, v, p, t, ca, ct)
        call == Call("applyForLoan", sender, None, 0, ct, p, t, ca, v)
    IN
    /\ v <= eth[sender]
    /\ r.err = "ok" => Len(loans) < MaxLoans
    /\ Commit(r, call)
    /\ retry' = IF retry.stage = "listed" /\ retry.call = call
                THEN [stage |-> "retried", call |-> call, err |-> r.err]
                ELSE IF r.err = "UnsupportedCollateral"
                THEN [stage |-> "rejected", call |-> call]
                ELSE [stage |-> "none"]
    /\ UNCHANGED <<scoreWriter, collateralWriter, oracleRun, ui>>

Mint(to, amount) ==
    LET r == mint(State, to, amount)
        supply == balanceOf["b1"] + balanceOf["b2"] + balanceOf[Oracle] + balanceOf[This]
    IN
    /\ supply + amount <= MaxSupply
    /\ Commit(r, Call("mint", to, None, 0, USDC, 0, 0, amount, 0))
    /\ retry' = [stage |-> "none"]
    /\ UNCHANGED <<scoreWriter, collateralWriter, oracleRun, ui>>

Approve(owner, amount) ==
    LET r == approve(State, owner, This, amount) IN
    /\ Commit(r, Call("approve", owner, None, 0, USDC, 0, 0, amount, 0))
    /\ retry' = [stage |-> "none"]
    /\ UNCHANGED <<scoreWriter, collateralWriter, oracleRun, ui>>

Next ==
    \/ \E sender \in Senders, b \in Scored, sc \in Scores : SetRiskScore(sender, b, sc)
    \/ \E sender \in Senders, tok \in TokenIds : AddCollateralToken(sender, tok)
    \/ \E sender \in Applicants, v \in Amounts, p \in Principals, t \in Tenures,
          ca \in Amounts, ct \in CollateralTokens : ApplyForLoan(sender, v, p, t, ca, ct)
    \/ \E to \in Minters, amount \in 1 .. MaxAmt : Mint(to, amount)
    \/ \E owner \in Minters, amount \in ApproveAmounts : Approve(owner, amount)

Spec == Init /\ [][Next]_vars

NextScores ==
    \/ \E sender \in Senders, b \in Scored, sc \in ScoreInputs : SetRiskScore(sender, b, sc)
    \/ \E sender \in Senders, tok \in TokenIds : AddCollateralToken(sender, tok)
    \/ \E sender \in Applicants, v \in Amounts, p \in Principals, t \in Tenures,
          ca \in Amounts, ct \in CollateralTokens : ApplyForLoan(sender, v, p, t, ca, ct)

SpecScores == Init /\ [][NextScores]_vars

RepayCall(sender, id) ==
    [op |-> "markRepaid", sender |-> sender, borrower |-> None, score |-> 0, token |-> None,
     principal |-> 0, tenure |-> 0, amount |-> 0, value |-> 0, err |-> "ok", loanId |-> id]

MarkRepaid(sender, id) ==
    LET r == markRepaid(State, sender, id) IN
    /\ Commit(r, RepayCall(sender, id))
    /\ retry' = [stage |-> "none"]
    /\ UNCHANGED <<scoreWriter, collateralWriter, oracleRun, ui>>

\* The ledger and the token, with tokens also minted straight to the ledger.
CustodyScores == {0, 60}
MintTargets == {"b1", This}

NextCustody ==
    \/ \E b \in Scored, sc \in CustodyScores : SetRiskScore(Oracle, b, sc)
    \/ \E tok \in TokenIds : AddCollateralToken(Oracle, tok)
    \/ \E sender \in Applicants, v \in Amounts, p \in Principals, t \in Tenures,
          ca \in Amounts, ct \in CollateralTokens : ApplyForLoan(sender, v, p, t, ca, ct)
    \/ \E to \in MintTargets, amount \in 1 .. MaxAmt : Mint(to, amount)
    \/ \E owner \in Minters, amount \in ApproveAmounts : Approve(owner, amount)

SpecCustody == Init /\ [][NextCustody]_vars

\* The oracle scoring two borrowers while both apply with native collateral,
\* in every order the chain can put the transactions in.
Borrowers == {"b1", "b2"}
InterleaveScores == {1, 60}

NextInterleave ==
    \/ \E b \in Borrowers, sc \in InterleaveScores : SetRiskScore(Oracle, b, sc)
    \/ \E sender \in Borrowers, ca \in Amounts, p \in Principals, t \in Tenures :
          ApplyForLoan(sender, ca, p, t, ca, ZeroAddress)

SpecInterleave == Init /\ [][NextInterleave]_vars

\* The ledger extended with the repayment operation.
NextRepay ==
    \/ \E sender \in Senders, b \in Scored, sc \in Scores : SetRiskScore(sender, b, sc)
    \/ \E sender \in Applicants, v \in Amounts, p \in Principals, t \in Tenures,
          ca \in Amounts, ct \in {ZeroAddress} : ApplyForLoan(sender, v, p, t, ca, ct)
    \/ \E sender \in Senders, id \in 1 .. MaxLoans + 1 : MarkRepaid(sender, id)

SpecRepay == Init /\ [][NextRepay]_vars

\* setRiskScore() of the script, one await at a time.  A rejection or throw in
\* any step lands in the catch, which logs and ends the run.
\* Faulty variant: no catch; the rejection leaves setRiskScore() unhandled.
FailedPropagates(run, step) == [run EXCEPT !.pc = "unhandled", !.failedAt = step, !.steps = Append(@, step)]

Failed(run, step) == [run EXCEPT !.pc = "failed", !.failedAt = step,
                                 !.steps = Append(@, step)]

FetchEthPrice(response) ==
    LET r == getEthPrice(response)
        run == [oracleRun EXCEPT !.response = response]
    IN
    /\ oracleRun.pc = "price"
    /\ oracleRun' = IF r.threw THEN Failed(run, "price")
                    ELSE [run EXCEPT !.pc = "model", !.prices = r.value,
                                     !.steps = Append(@, "price")]
    /\ UNCHANGED <<loans, trustedOracle, borrowerRiskScore, supportedCollateral, nextLoanId,
                   eth, balanceOf, allowance, lastCall, lastEvents, pre, scoreWriter,
                   collateralWriter, retry, ui>>

RunRiskModel(proc) ==
    LET r == getMlRiskScore(TEST_PRINCIPAL, TEST_TENURE, TEST_COLLATERAL,
                            oracleRun.prices.usd, oracleRun.prices.inr, proc)
        run == [oracleRun EXCEPT !.command = r.command, !.proc = proc]
    IN
    /\ oracleRun.pc = "model"
    /\ oracleRun' = IF r.rejected THEN Failed(run, "model")
                    ELSE [run EXCEPT !.pc = "submit", !.dynamicScore = r.score,
                                     !.steps = Append(@, "model")]
    /\ UNCHANGED <<loans, trustedOracle, borrowerRiskScore, supportedCollateral, nextLoanId,
                   eth, balanceOf, allowance, lastCall, lastEvents, pre, scoreWriter,
                   collateralWriter, retry, ui>>

\* contract.setRiskScore(BORROWER_ADDRESS, dynamicScore), signed with the
\* oracle's key; a revert makes the await throw.
SubmitScore ==
    LET r == setRiskScore(State, Oracle, BORROWER_ADDRESS, oracleRun.dynamicScore) IN
    /\ oracleRun.pc = "submit"
    /\ Commit(r, Call("setRiskScore", Oracle, BORROWER_ADDRESS, oracleRun.dynamicScore,
                      None, 0, 0, 0, 0))
    /\ scoreWriter' = IF r.err = "ok" THEN [scoreWriter EXCEPT ![BORROWER_ADDRESS] = Oracle]
                      ELSE scoreWriter
    /\ retry' = [stage |-> "none"]
    /\ oracleRun' = IF r.err = "ok"
                    THEN [oracleRun EXCEPT !.pc = "confirm", !.steps = Append(@, "submit")]
                    ELSE Failed(oracleRun, "submit")
    /\ UNCHANGED <<collateralWriter, ui>>

\* await tx.wait()
ConfirmTx ==
    /\ oracleRun.pc = "confirm"
    /\ oracleRun' = [oracleRun EXCEPT !.pc = "read", !.steps = Append(@, "confirm")]
    /\ UNCHANGED <<loans, trustedOracle, borrowerRiskScore, supportedCollateral, nextLoanId,
                   eth, balanceOf, allowance, lastCall, lastEvents, pre, scoreWriter,
                   collateralWriter, retry, ui>>

\* contract.borrowerRiskScore(BORROWER_ADDRESS)
ReadBack ==
    /\ oracleRun.pc = "read"
    /\ oracleRun' = [oracleRun EXCEPT !.pc = "done", !.steps = Append(@, "read"),
                                      !.recordedScore = borrowerRiskScore[BORROWER_ADDRESS]]
    /\ UNCHANGED <<loans, trustedOracle, borrowerRiskScore, supportedCollateral, nextLoanId,
                   eth, balanceOf, allowance, lastCall, lastEvents, pre, scoreWriter,
                   collateralWriter, retry, ui>>

\* The script is started again after a run has ended.
RunAgain ==
    /\ oracleRun.pc \in {"done", "failed"}
    /\ oracleRun' = [NotStarted EXCEPT !.scoreAtStart = borrowerRiskScore[BORROWER_ADDRESS]]
    /\ UNCHANGED <<loans, trustedOracle, borrowerRiskScore, supportedCollateral, nextLoanId,
                   eth, balanceOf, allowance, lastCall, lastEvents, pre, scoreWriter,
                   collateralWriter, retry, ui>>

NextOracle ==
    \/ \E response \in PriceResponses : FetchEthPrice(response)
    \/ \E proc \in ModelOutcomes : RunRiskModel(proc)
    \/ SubmitScore
    \/ ConfirmTx
    \/ ReadBack
    \/ RunAgain

SpecOracle == Init /\ [][NextOracle]_vars

\* The page's user b1 applying through the form, the oracle scoring b1.
UiPrincipals == {0, 50, 100}
UiTenures == {TEST_TENURE}
UiCollaterals == {0, 5, 10, 20}
UiTokens == {"ETH", "USDC"}
UiScores == {0, 1, 60}
UiFunds == MaxLoans * parseUnits(20)
currentAccount == "b1"

InitUi ==
    /\ loans = <<>>
    /\ trustedOracle = Oracle
    /\ borrowerRiskScore = [u \in Users |-> 0]
    /\ supportedCollateral = [t \in TokenIds |-> FALSE]
    /\ nextLoanId = 1
    /\ eth = [h \in Users \cup {This} |-> IF h = This THEN 0 ELSE UiFunds]
    /\ balanceOf = [h \in Holders |-> IF h = Deployer THEN DeployerMint ELSE 0]
    /\ allowance = [o \in Users |-> [sp \in {This} |-> 0]]
    /\ lastCall = NoCall
    /\ lastEvents = <<>>
    /\ pre = State
    /\ scoreWriter = [u \in Users |-> None]
    /\ collateralWriter = [t \in TokenIds |-> None]
    /\ retry = [stage |-> "none"]
    /\ oracleRun = NotStarted
    /\ ui = PageMounted

UiApplyLoan(principal, tenure, collateral, selectedToken) ==
    LET usdcAllowance == formatUnits(allowance[currentAccount][This])
        c == handleApplyLoan(principal, tenure, collateral, selectedToken, usdcAllowance)
    IN
    /\ c.submitted
    /\ ApplyForLoan(currentAccount, c.value, c.principal, c.tenure, c.amount, c.token)

NextUi ==
    \/ \E sc \in UiScores : SetRiskScore(Oracle, currentAccount, sc)
    \/ \E tok \in TokenIds : AddCollateralToken(Oracle, tok)
    \/ Approve(currentAccount, MaxUint256)
    \/ \E principal \in UiPrincipals, tenure \in UiTenures, collateral \in UiCollaterals,
          selectedToken \in UiTokens : UiApplyLoan(principal, tenure, collateral, selectedToken)

SpecUi == InitUi /\ [][NextUi]_vars

\* The page's mount effects: the price loop and the score read, while the
\* oracle scores the user.
ChainUnchanged ==
    UNCHANGED <<loans, trustedOracle, borrowerRiskScore, supportedCollateral, nextLoanId,
                eth, balanceOf, allowance, lastCall, lastEvents, pre, scoreWriter,
                collateralWriter, retry, oracleRun>>

\* the request of the call in flight settles
FetchSettles(response) ==
    LET f == ui.fetch
        r == fetchEthPrice(f.retries, response)
    IN
    /\ f.pc = "calling"
    /\ ui' = [ui EXCEPT
                !.fetch = [pc |-> IF r.retry THEN "timer" ELSE "idle",
                           retries |-> IF r.retry THEN r.next ELSE f.retries,
                           attempts |-> f.attempts + 1,
                           response |-> response],
                !.ethPrices = IF r.setEthPrices
                              THEN [usd |-> response.data.ethereum.usd,
                                    inr |-> response.data.ethereum.inr]
                              ELSE @]
    /\ ChainUnchanged

\* the 2 s timeout fires: fetchEthPrice(retries - 1) is called
RetryTimerFires ==
    /\ ui.fetch.pc = "timer"
    /\ ui' = [ui EXCEPT !.fetch.pc = "calling"]
    /\ ChainUnchanged

\* fetchRiskScore(account): the stored score, or null when the read fails
FetchRiskScore(ok) ==
    /\ ui' = [ui EXCEPT !.riskScore = IF ok THEN borrowerRiskScore[currentAccount] ELSE Unset]
    /\ ChainUnchanged

NextPrice ==
    \/ \E response \in FetchOutcomes : FetchSettles(response)
    \/ RetryTimerFires
    \/ \E ok \in BOOLEAN : FetchRiskScore(ok)
    \/ \E sc \in UiScores : SetRiskScore(Oracle, currentAccount, sc)

\* A pending request settles and a pending timeout fires.
SpecPrice ==
    /\ InitUi /\ [][NextPrice]_vars
    /\ WF_vars(\E response \in FetchOutcomes : FetchSettles(response))
    /\ WF_vars(RetryTimerFires)

\* The page's transaction handlers.  Each invocation runs in the first free
\* slot; its awaits are getContract, the contract call and tx.wait().
PagePrincipals == {100}
PageCollaterals == {10}
PageScore == 60
UiMintAmount == parseUnits(100000)
FreeSlot(k) ==
    /\ ui.handlers[k].kind = "none"
    /\ \A j \in 1 .. k - 1 : ui.handlers[j].kind # "none"

\* The oracle has scored the user and listed USDC, and the page has connected
\* the wallet and read the score.
InitPage ==
    /\ loans = <<>>
    /\ trustedOracle = Oracle
    /\ borrowerRiskScore = [u \in Users |-> IF u = currentAccount THEN PageScore ELSE 0]
    /\ supportedCollateral = [t \in TokenIds |-> t = USDC]
    /\ nextLoanId = 1
    /\ eth = [h \in Users \cup {This} |-> IF h = This THEN 0 ELSE UiFunds]
    /\ balanceOf = [h \in Holders |-> IF h = Deployer THEN DeployerMint ELSE 0]
    /\ allowance = [o \in Users |-> [sp \in {This} |-> 0]]
    /\ lastCall = NoCall
    /\ lastEvents = <<>>
    /\ pre = State
    /\ scoreWriter = [u \in Users |-> IF u = currentAccount THEN Oracle ELSE None]
    /\ collateralWriter = [t \in TokenIds |-> IF t = USDC THEN Oracle ELSE None]
    /\ retry = [stage |-> "none"]
    /\ oracleRun = NotStarted
    /\ ui = [PageMounted EXCEPT !.riskScore = PageScore]

Started(kind, call) == [kind |-> kind, pc |-> "contract", setPending |-> FALSE, call |-> call]

\* the form is submitted (the button is enabled) and validation passes
ClickSubmit(k, principal, tenure, collateral, selectedToken) ==
    /\ FreeSlot(k)
    /\ ~submitDisabled(ui)
    /\ principal > 0 /\ tenure > 0 /\ collateral >= 0
    /\ ui' = [ui EXCEPT !.handlers[k] =
                 Started("apply", [handleApplyLoan(principal, tenure, collateral, selectedToken,
                                                   ui.usdcAllowance)
                                   EXCEPT !.token = IF selectedToken = "ETH" THEN ZeroAddress
                                                    ELSE USDC])]
    /\ ChainUnchanged

\* "Mint Test USDC" and "Approve USDC" carry no disabled attribute; the
\* loading overlay covers them while isTxPending
ClickMint(k) ==
    /\ FreeSlot(k)
    /\ ~ui.isTxPending
    /\ ui' = [ui EXCEPT !.handlers[k] = Started("mint", NotSubmitted)]
    /\ ChainUnchanged

ClickApprove(k) ==
    /\ FreeSlot(k)
    /\ ~ui.isTxPending
    /\ \E collateral \in PageCollaterals : ui.usdcAllowance < collateral
    /\ ui' = [ui EXCEPT !.handlers[k] = Started("approve", NotSubmitted)]
    /\ ChainUnchanged

\* await getLendingContract() / getUsdcContract() is over: without a contract
\* the handler falls through to finally; with one it sets isTxPending, and
\* handleApplyLoan with USDC and too small an allowance resets it and returns.
GotContract(k, contract) ==
    LET h == ui.handlers[k] IN
    /\ h.pc = "contract"
    /\ ui' = IF ~contract THEN finally(ui, k)
             ELSE IF h.kind = "apply" /\ ~h.call.submitted
             THEN finally([ui EXCEPT !.isTxPending = FALSE], k)
             ELSE [ui EXCEPT !.isTxPending = TRUE, !.handlers[k].pc = "send",
                             !.handlers[k].setPending = TRUE]
    /\ ChainUnchanged

\* the transaction handler k sends, as the chain would run it now
Sent(k) ==
    LET h == ui.handlers[k] IN
    IF h.kind = "apply"
    THEN [r |-> applyForLoan(State, currentAccount, h.call.value, h.call.principal,
                             h.call.tenure, h.call.amount, h.call.token),
          call |-> Call("applyForLoan", currentAccount, None, 0, h.call.token, h.call.principal,
                        h.call.tenure, h.call.amount, h.call.value)]
    ELSE IF h.kind = "mint"
    THEN [r |-> mint(State, currentAccount, UiMintAmount),
          call |-> Call("mint", currentAccount, None, 0, USDC, 0, 0, UiMintAmount, 0)]
    ELSE [r |-> approve(State, currentAccount, This, MaxUint256),
          call |-> Call("approve", currentAccount, None, 0, USDC, 0, 0, MaxUint256, 0)]

\* await of the contract call: the wallet refuses, or the call would revert
\* and is never sent, and the await throws; or the transaction runs.  Minting
\* is capped at one mint and lending at MaxLoans loans.
TxSend(k, signed) ==
    LET h == ui.handlers[k]
        s == Sent(k)
    IN
    /\ h.pc = "send"
    /\ IF ~signed \/ s.r.err # "ok"
       THEN /\ ui' = finally(ui, k)
            /\ ChainUnchanged
       ELSE /\ (h.kind = "mint") => balanceOf[currentAccount] = 0
            /\ (h.kind = "apply") => Len(loans) < MaxLoans
            /\ Commit(s.r, s.call)
            /\ retry' = [stage |-> "none"]
            /\ UNCHANGED <<scoreWriter, collateralWriter, oracleRun>>
            /\ ui' = [ui EXCEPT !.handlers[k].pc = "wait"]

\* await tx.wait(): confirmed (then fetchUsdcData refreshes the allowance) or
\* thrown
TxWait(k, confirmed) ==
    /\ ui.handlers[k].pc = "wait"
    /\ ui' = IF confirmed
             THEN finally([ui EXCEPT !.usdcAllowance = formatUnits(allowance[currentAccount][This])],
                          k)
             ELSE finally(ui, k)
    /\ ChainUnchanged

Slots == 1 .. MaxHandlers

NextPage ==
    \/ \E k \in Slots, principal \in PagePrincipals, tenure \in UiTenures,
          collateral \in PageCollaterals, selectedToken \in UiTokens :
          ClickSubmit(k, principal, tenure, collateral, selectedToken)
    \/ \E k \in Slots : ClickMint(k)
    \/ \E k \in Slots : ClickApprove(k)
    \/ \E k \in Slots, contract \in BOOLEAN : GotContract(k, contract)
    \/ \E k \in Slots, signed \in BOOLEAN : TxSend(k, signed)
    \/ \E k \in Slots, confirmed \in BOOLEAN : TxWait(k, confirmed)

\* the await handler k is at settles, one way or the other
Settles(k) ==
    \/ \E contract \in BOOLEAN : GotContract(k, contract)
    \/ \E signed \in BOOLEAN : TxSend(k, signed)
    \/ \E confirmed \in BOOLEAN : TxWait(k, confirmed)

\* Every await of a running handler settles.
SpecPage ==
    /\ InitPage /\ [][NextPage]_vars
    /\ \A k \in Slots : WF_vars(Settles(k))

\* The same contracts with accounts funded for the scenario's collateral.
InitTrace ==
    /\ loans = <<>>
    /\ trustedOracle = Oracle
    /\ borrowerRiskScore = [u \in Users |-> 0]
    /\ supportedCollateral = [t \in TokenIds |-> FALSE]
    /\ nextLoanId = 1
    /\ eth = [h \in Users \cup {This} |-> IF h = This THEN 0 ELSE TraceFunds]
    /\ balanceOf = [h \in Holders |-> IF h = Deployer THEN DeployerMint ELSE 0]
    /\ allowance = [o \in Users |-> [sp \in {This} |-> 0]]
    /\ lastCall = NoCall
    /\ lastEvents = <<>>
    /\ pre = State
    /\ scoreWriter = [u \in Users |-> None]
    /\ collateralWriter = [t \in TokenIds |-> None]
    /\ retry = [stage |-> "none"]
    /\ oracleRun = NotStarted
    /\ ui = PageMounted

NextTrace ==
    \/ \E sender \in Senders, b \in Scored, sc \in TraceScores : SetRiskScore(sender, b, sc)
    \/ \E sender \in Senders, tok \in TokenIds : AddCollateralToken(sender, tok)
    \/ \E sender \in Applicants, v \in TraceValues, p \in {TEST_PRINCIPAL}, t \in {TEST_TENURE},
          ca \in TraceAmounts, ct \in CollateralTokens : ApplyForLoan(sender, v, p, t, ca, ct)

SpecTrace == InitTrace /\ [][NextTrace]_vars

\* ------------------------------------------------------------ properties
OracleOnlyOps == {"setRiskScore", "addCollateralToken"}
LedgerOps == OracleOnlyOps \cup {"applyForLoan"}
Applied == lastCall.op = "applyForLoan"
\* the score the caller of the last transaction had when it started
CallerScore == pre.borrowerRiskScore[lastCall.sender]

\* C1: a call of setRiskScore or addCollateralToken by anyone but trustedOracle
\* fails with Unauthorized and leaves scores, whitelist, loans and nextLoanId as
\* they were; every stored non-zero score and every whitelisted token was
\* written by a call whose msg.sender was trustedOracle.
C1_OnlyOracleWrites ==
    /\ (lastCall.op \in OracleOnlyOps /\ lastCall.sender # pre.trustedOracle) =>
          /\ lastCall.err = "Unauthorized"
          /\ borrowerRiskScore = pre.borrowerRiskScore
          /\ supportedCollateral = pre.supportedCollateral
          /\ loans = pre.loans
          /\ nextLoanId = pre.nextLoanId
    /\ \A u \in Users : borrowerRiskScore[u] # 0 => scoreWriter[u] = trustedOracle
    /\ \A tok \in TokenIds : supportedCollateral[tok] => collateralWriter[tok] = trustedOracle

\* A non-oracle caller was just refused a valid score while a score and a
\* whitelist entry written by the oracle are stored.
C1_Witness ==
    /\ lastCall.op = "setRiskScore"
    /\ lastCall.sender # trustedOracle
    /\ lastCall.score \in 1 .. MaxScore
    /\ lastCall.err = "Unauthorized"
    /\ \E u \in Users : borrowerRiskScore[u] # 0
    /\ \E tok \in TokenIds : supportedCollateral[tok]

\* C2: setRiskScore checks the caller before the range: a non-oracle caller
\* with a score above 100 gets Unauthorized, never InvalidScore, and nothing
\* changes.
C2_CallerCheckedFirst ==
    (lastCall.op = "setRiskScore" /\ lastCall.sender # pre.trustedOracle
        /\ lastCall.score > MaxScore) =>
       /\ lastCall.err = "Unauthorized"
       /\ State = pre

C2_Witness ==
    /\ lastCall.op = "setRiskScore"
    /\ lastCall.sender # trustedOracle
    /\ lastCall.score > MaxScore
    /\ lastCall.err = "Unauthorized"

\* C3: a score above 100 sent by the trusted oracle fails with InvalidScore,
\* emits nothing and leaves every stored score as it was; every stored score
\* is in 0..100.
C3_ScoreRange ==
    /\ (lastCall.op = "setRiskScore" /\ lastCall.sender = pre.trustedOracle
           /\ lastCall.score \notin 0 .. MaxScore) =>
          /\ lastCall.err = "InvalidScore"
          /\ lastEvents = <<>>
          /\ borrowerRiskScore = pre.borrowerRiskScore
    /\ \A u \in Users : borrowerRiskScore[u] \in 0 .. MaxScore

\* The oracle was just refused 101 for a borrower whose stored score is 100.
C3_Witness ==
    /\ lastCall.op = "setRiskScore"
    /\ lastCall.sender = trustedOracle
    /\ lastCall.score = MaxScore + 1
    /\ lastCall.err = "InvalidScore"
    /\ borrowerRiskScore[lastCall.borrower] = MaxScore

\* what the last call's sender held and had approved when the call started
CallerBalance == pre.balanceOf[lastCall.sender]
CallerAllowance == pre.allowance[lastCall.sender][This]
TokenKind == lastCall.token \in TokenIds
NativeKind == lastCall.token = ZeroAddress
Scored1to100 == CallerScore \in 1 .. MaxScore
NoLoanCreated == loans = pre.loans /\ nextLoanId = pre.nextLoanId
NoFundsMoved == eth = pre.eth /\ balanceOf = pre.balanceOf /\ allowance = pre.allowance

\* C4: applyForLoan by a caller whose score was never written, or whose stored
\* score is 0, fails with NotScored whatever the arguments and the value sent;
\* no loan is appended, nextLoanId stays and no native currency or token moves.
C4_NotScored ==
    (Applied /\ (scoreWriter[lastCall.sender] = None \/ CallerScore = 0)) =>
       /\ lastCall.err = "NotScored"
       /\ NoLoanCreated
       /\ NoFundsMoved

\* A borrower the oracle scored 0 was refused an application that was
\* otherwise in order: listed token, no native value, balance and allowance
\* covering a positive amount.
C4_Witness ==
    /\ Applied /\ lastCall.err = "NotScored"
    /\ scoreWriter[lastCall.sender] = trustedOracle /\ CallerScore = 0
    /\ TokenKind /\ pre.supportedCollateral[lastCall.token]
    /\ lastCall.value = 0 /\ lastCall.amount > 0
    /\ CallerBalance >= lastCall.amount /\ CallerAllowance >= lastCall.amount

\* principals and tenures an application is evaluated with in C5
AnyPrincipal == {1, 10, 1000}
AnyTenure == {1, 12, 360}

\* q is floor(100 / s)
IsFloorOf100Over(q, s) == q * s <= 100 /\ 100 < (q + 1) * s

\* C5: the interestRate of the loan a successful applyForLoan appends is
\* floor(100 / s) for the caller's score s in 1..100 (25 gives 4, 100 gives 1,
\* 1 gives 100, 50 gives 2), whatever the principal, tenure and collateral.
C5_RateIsFloor ==
    /\ (Applied /\ lastCall.err = "ok") =>
          /\ Scored1to100
          /\ Len(loans) = Len(pre.loans) + 1
          /\ IsFloorOf100Over(loans[Len(loans)].interestRate, CallerScore)
    /\ \A sender \in Applicants, v \in Amounts, p \in AnyPrincipal, t \in AnyTenure,
          ca \in Amounts, ct \in CollateralTokens :
          LET r == applyForLoan(State, sender, v, p, t, ca, ct) IN
          r.err = "ok" =>
             IsFloorOf100Over(r.state.loans[Len(r.state.loans)].interestRate,
                              borrowerRiskScore[sender])
    /\ \A s \in 1 .. MaxScore : IsFloorOf100Over(finalRate(s), s)
    /\ finalRate(25) = 4 /\ finalRate(100) = 1 /\ finalRate(1) = 100 /\ finalRate(50) = 2

\* A loan was just granted at rate 1 to a borrower scored 60 (100/60 is not whole).
C5_Witness ==
    /\ Applied /\ lastCall.err = "ok"
    /\ CallerScore = 60
    /\ loans[Len(loans)].interestRate = 1

\* C6: loan ids are 1, 2, 3, ... without gap or reuse: nextLoanId is the number
\* of loans plus 1 and the i-th loan appended has loanId i, whatever calls,
\* failed or not, came in between.
C6_LoanIdsConsecutive ==
    /\ nextLoanId = Len(loans) + 1
    /\ \A i \in 1 .. Len(loans) : loans[i].loanId = i

\* Two loans exist and a failed application has just been rejected.
C6_Witness ==
    /\ Len(loans) >= 2
    /\ Applied /\ lastCall.err # "ok"

LedgerErrors == {"Unauthorized", "InvalidScore", "NotScored", "CollateralMismatch",
                 "UnsupportedCollateral", "UnexpectedNativeValue", "TransferFailed"}

\* C7: a call of setRiskScore, addCollateralToken or applyForLoan that fails,
\* for whichever reason, leaves loans, nextLoanId, scores, whitelist, native
\* balances, token balances and allowances exactly as they were.
C7_FailureChangesNothing ==
    (lastCall.op \in LedgerOps /\ lastCall.err # "ok") =>
       /\ lastCall.err \in LedgerErrors
       /\ State = pre

\* A pull-transfer failed on the balance after the allowance had covered it:
\* the allowance already spent is restored.
C7_Witness ==
    /\ Applied /\ lastCall.err = "TransferFailed"
    /\ lastCall.amount > 0
    /\ CallerAllowance >= lastCall.amount /\ CallerAllowance # MaxUint256
    /\ CallerBalance < lastCall.amount
    /\ allowance[lastCall.sender][This] = CallerAllowance

\* C8: for a caller scored 1..100, native collateral with a value sent other
\* than collateralAmount fails with CollateralMismatch, and a whitelisted token
\* with native value sent fails with UnexpectedNativeValue; no loan is created.
C8_NativeValueChecks ==
    /\ (Applied /\ Scored1to100 /\ NativeKind /\ lastCall.value # lastCall.amount) =>
          lastCall.err = "CollateralMismatch" /\ NoLoanCreated
    /\ (Applied /\ Scored1to100 /\ TokenKind /\ pre.supportedCollateral[lastCall.token]
           /\ lastCall.value > 0) =>
          lastCall.err = "UnexpectedNativeValue" /\ NoLoanCreated

\* Native value was sent with a listed token whose pull-transfer was covered.
C8_Witness ==
    /\ Applied /\ Scored1to100 /\ TokenKind /\ pre.supportedCollateral[lastCall.token]
    /\ lastCall.value > 0 /\ lastCall.amount > 0
    /\ CallerBalance >= lastCall.amount /\ CallerAllowance >= lastCall.amount
    /\ lastCall.err = "UnexpectedNativeValue"

Unlisted == Applied /\ Scored1to100 /\ TokenKind /\ ~pre.supportedCollateral[lastCall.token]
\* the last call retried, right after the token was listed, an application
\* that had been rejected as unsupported
Retried == retry.stage = "retried"
PullCovered == CallerBalance >= lastCall.amount /\ CallerAllowance >= lastCall.amount

\* C9 as claimed: a token application by a scored borrower fails with
\* UnsupportedCollateral while the token is not whitelisted, and succeeds when
\* retried after the oracle's addCollateralToken.
C9_RetrySucceeds ==
    /\ Unlisted => lastCall.err = "UnsupportedCollateral"
    /\ Retried => retry.err = "ok"

\* C9 amended: the retry succeeds exactly when it sends no native value and the
\* borrower's balance and allowance cover collateralAmount; with native value
\* it fails with UnexpectedNativeValue, otherwise with TransferFailed.
C9_RetryAfterListing ==
    /\ Unlisted => lastCall.err = "UnsupportedCollateral" /\ NoLoanCreated
    /\ Retried =>
          /\ retry.call.sender = lastCall.sender /\ Applied
          /\ pre.supportedCollateral[lastCall.token]
          /\ retry.err = lastCall.err
          /\ lastCall.err = (IF lastCall.value # 0 THEN "UnexpectedNativeValue"
                             ELSE IF PullCovered THEN "ok" ELSE "TransferFailed")

\* The retry of a rejected application with positive token collateral succeeded.
C9_Witness ==
    /\ Retried /\ retry.err = "ok"
    /\ lastCall.amount > 0
    /\ Len(loans) = Len(pre.loans) + 1

\* C10: for a scored borrower applying with a whitelisted token and no native
\* value, a token balance or an allowance below collateralAmount makes
\* applyForLoan fail with TransferFailed: no token moves, no allowance is
\* consumed and no loan is appended.
C10_TransferFailed ==
    (Applied /\ Scored1to100 /\ TokenKind /\ pre.supportedCollateral[lastCall.token]
        /\ lastCall.value = 0
        /\ (CallerBalance < lastCall.amount \/ CallerAllowance < lastCall.amount)) =>
       /\ lastCall.err = "TransferFailed"
       /\ balanceOf = pre.balanceOf
       /\ allowance = pre.allowance
       /\ NoLoanCreated

\* The borrower held the collateral but had not approved the ledger for it.
C10_Witness ==
    /\ Applied /\ Scored1to100 /\ TokenKind /\ pre.supportedCollateral[lastCall.token]
    /\ lastCall.value = 0
    /\ CallerBalance >= lastCall.amount /\ CallerAllowance < lastCall.amount
    /\ lastCall.err = "TransferFailed"

\* the first loan of the scenario: B scored 50, principal 10, tenure 12, 5 native
TraceLoan(b) == Loan(1, b, TEST_PRINCIPAL, 2, TEST_TENURE, TEST_COLLATERAL, ZeroAddress, FALSE)
TraceFirst ==
    /\ Applied /\ pre.loans = <<>> /\ pre.nextLoanId = 1 /\ CallerScore = 50
    /\ NativeKind /\ lastCall.principal = TEST_PRINCIPAL /\ lastCall.tenure = TEST_TENURE
    /\ lastCall.amount = TEST_COLLATERAL /\ lastCall.value = TEST_COLLATERAL
TraceSecond ==
    /\ Applied /\ pre.loans = <<TraceLoan(lastCall.sender)>> /\ CallerScore = 50
    /\ TokenKind /\ ~pre.supportedCollateral[lastCall.token] /\ lastCall.amount = 3

\* C11: with B scored 50 by the oracle, B's first application (principal 10,
\* tenure 12, native collateral 5, value 5) succeeds, records loan 1 at rate 2
\* and makes nextLoanId 2; B's next application with 3 of an unlisted token
\* fails with UnsupportedCollateral, no loan 2 exists and nextLoanId stays 2.
C11_EndToEnd ==
    /\ TraceFirst =>
          /\ lastCall.err = "ok"
          /\ loans = <<TraceLoan(lastCall.sender)>>
          /\ nextLoanId = 2
    /\ TraceSecond =>
          /\ lastCall.err = "UnsupportedCollateral"
          /\ loans = <<TraceLoan(lastCall.sender)>>
          /\ nextLoanId = 2

\* The scenario's second application has just been rejected.
C11_Witness ==
    /\ TraceSecond
    /\ scoreWriter[lastCall.sender] = trustedOracle
    /\ lastCall.err = "UnsupportedCollateral"
    /\ Len(loans) = 1 /\ loans[1].loanId = 1 /\ loans[1].interestRate = 2
    /\ nextLoanId = 2

\* C12: trustedOracle is set once, by the constructor, and no call of
\* setRiskScore, addCollateralToken or applyForLoan by anyone changes it.
C12_OracleImmutable ==
    /\ trustedOracle = Oracle
    /\ pre.trustedOracle = trustedOracle

\* All three functions have succeeded and a non-oracle call has just failed.
C12_Witness ==
    /\ Len(loans) >= 1
    /\ \E tok \in TokenIds : supportedCollateral[tok]
    /\ \E u \in Users : scoreWriter[u] # None
    /\ lastCall.op \in OracleOnlyOps /\ lastCall.sender # Oracle

\* C13: a reader of the registry can tell a borrower that was never scored
\* (present = FALSE) from one the oracle scored, 0 included (present = TRUE,
\* score = the value written).
C13_PresenceTracked ==
    \A u \in Users :
       /\ getScore(State, u).present = (scoreWriter[u] # None)
       /\ (lastCall.op = "setRiskScore" /\ lastCall.err = "ok" /\ lastCall.borrower = u) =>
             getScore(State, u).score = lastCall.score

Repaying == lastCall.op = "markRepaid"
RepayTarget == pre.loans[lastCall.loanId]
OwnLoan == lastCall.loanId \in 1 .. Len(pre.loans) /\ RepayTarget.borrower = lastCall.sender

\* C14: a loan is created unrepaid; markRepaid succeeds only for the loan's
\* borrower on an unrepaid loan and sets repaid, changing nothing else; a
\* repaid loan stays repaid; a repeated attempt by the borrower fails with
\* AlreadyRepaid and leaves the loan as it was.
C14_RepaymentLifecycle ==
    /\ (Applied /\ lastCall.err = "ok") => ~loans[Len(loans)].isRepaid
    /\ (Repaying /\ lastCall.err = "ok") =>
          /\ OwnLoan /\ ~RepayTarget.isRepaid
          /\ State = [pre EXCEPT !.loans[lastCall.loanId].isRepaid = TRUE]
    /\ (Repaying /\ OwnLoan /\ ~RepayTarget.isRepaid) => lastCall.err = "ok"
    /\ (Repaying /\ OwnLoan /\ RepayTarget.isRepaid) =>
          lastCall.err = "AlreadyRepaid" /\ State = pre
    /\ \A i \in 1 .. Len(pre.loans) : pre.loans[i].isRepaid => loans[i].isRepaid

\* The borrower's second repayment of the same loan has just been refused.
C14_Witness ==
    /\ Repaying /\ OwnLoan /\ RepayTarget.isRepaid
    /\ lastCall.err = "AlreadyRepaid"
    /\ loans[lastCall.loanId].isRepaid

Terms(l) == <<l.loanId, l.borrower, l.principal, l.interestRate, l.tenure,
              l.collateralAmount, l.collateralToken>>

\* C15: the ledger only grows: every loan stored before a transaction is at
\* the same position afterwards with the same loanId, borrower, principal,
\* interestRate, tenure, collateralAmount and collateral kind, whichever of
\* setRiskScore, addCollateralToken and applyForLoan ran.
C15_AppendOnly ==
    /\ Len(loans) >= Len(pre.loans)
    /\ \A i \in 1 .. Len(pre.loans) : Terms(loans[i]) = Terms(pre.loans[i])

\* The oracle has just given a borrower a new non-zero score under which a
\* loan the borrower already holds would be priced differently.
C15_Witness ==
    /\ lastCall.op = "setRiskScore" /\ lastCall.err = "ok" /\ lastCall.score > 0
    /\ \E i \in 1 .. Len(loans) :
          /\ loans[i].borrower = lastCall.borrower
          /\ loans[i].interestRate # finalRate(lastCall.score)
          /\ loans[i] = pre.loans[i]

\* C16: a successful applyForLoan records the principal and moves only the
\* collateral: the caller's balance of the collateral kind falls by the
\* collateral amount, the ledger's rises by it, and no other balance changes.
C16_PrincipalNotPaid ==
    (Applied /\ lastCall.err = "ok") =>
       /\ loans[Len(loans)].principal = lastCall.principal
       /\ eth[lastCall.sender] <= pre.eth[lastCall.sender]
       /\ balanceOf[lastCall.sender] <= pre.balanceOf[lastCall.sender]
       /\ allowance[lastCall.sender][This] <= pre.allowance[lastCall.sender][This]
       /\ IF NativeKind
          THEN /\ eth = [pre.eth EXCEPT ![lastCall.sender] = @ - lastCall.amount,
                                        ![This] = @ + lastCall.amount]
               /\ balanceOf = pre.balanceOf
          ELSE /\ balanceOf = [pre.balanceOf EXCEPT ![lastCall.sender] = @ - lastCall.amount,
                                                    ![This] = @ + lastCall.amount]
               /\ eth = pre.eth

\* A loan with a principal above the collateral has just been granted against
\* token collateral that was pulled from the caller.
C16_Witness ==
    /\ Applied /\ lastCall.err = "ok" /\ TokenKind
    /\ lastCall.amount > 0
    /\ lastCall.principal > lastCall.amount
    /\ balanceOf[This] = pre.balanceOf[This] + lastCall.amount

OracleSetsScore ==
    /\ lastCall.op = "setRiskScore"
    /\ lastCall.sender = pre.trustedOracle
    /\ lastCall.score \in 0 .. MaxScore

\* C17: setRiskScore by trustedOracle with a score in 0..100 succeeds, stores
\* the score for that borrower in place of the previous one and emits
\* ScoreUpdated(borrower, score), also when the value was already stored;
\* other borrowers' scores, the whitelist, loans and nextLoanId stay as they
\* were.
C17_LatestWriteWins ==
    OracleSetsScore =>
       /\ lastCall.err = "ok"
       /\ borrowerRiskScore = [pre.borrowerRiskScore EXCEPT ![lastCall.borrower] = lastCall.score]
       /\ lastEvents = <<ScoreUpdated(lastCall.borrower, lastCall.score)>>
       /\ supportedCollateral = pre.supportedCollateral
       /\ loans = pre.loans
       /\ nextLoanId = pre.nextLoanId

\* The oracle has just written again the non-zero score a borrower already had.
C17_Witness ==
    /\ OracleSetsScore
    /\ lastCall.score > 0
    /\ pre.borrowerRiskScore[lastCall.borrower] = lastCall.score
    /\ borrowerRiskScore[lastCall.borrower] = lastCall.score
    /\ lastEvents = <<ScoreUpdated(lastCall.borrower, lastCall.score)>>

OracleAddsToken == lastCall.op = "addCollateralToken" /\ lastCall.sender = pre.trustedOracle

\* C18: addCollateralToken by trustedOracle succeeds and leaves the token
\* listed; on a token already listed the whitelist is unchanged.  The whitelist
\* differs across a transaction only if that transaction was a successful
\* addCollateralToken by trustedOracle.
C18_AddIdempotent ==
    /\ OracleAddsToken =>
          /\ lastCall.err = "ok"
          /\ supportedCollateral = [pre.supportedCollateral EXCEPT ![lastCall.token] = TRUE]
          /\ pre.supportedCollateral[lastCall.token] =>
                supportedCollateral = pre.supportedCollateral
    /\ supportedCollateral # pre.supportedCollateral =>
          OracleAddsToken /\ lastCall.err = "ok"

\* The oracle has just added a token that was already listed.
C18_Witness ==
    /\ OracleAddsToken
    /\ lastCall.err = "ok"
    /\ pre.supportedCollateral[lastCall.token]
    /\ supportedCollateral[lastCall.token]

PriceFetched == oracleRun.pc # "price"
FallbackPair == [usd |-> FallbackUsd, inr |-> FallbackInr]
HasQuotes == oracleRun.response.status = "ok" /\ "ethereum" \in DOMAIN oracleRun.response.data

\* C19: the price lookup never fails towards the script: a rejected request
\* yields the pair {usd: 3000, inr: 250000}, a response carrying the quotes
\* yields those quotes, no run ends at the price step, and the risk model is
\* then run with the pair the lookup returned.
C19_PriceFallback ==
    /\ PriceFetched =>
          /\ oracleRun.response.status = "error" => oracleRun.prices = FallbackPair
          /\ HasQuotes => oracleRun.prices = [usd |-> oracleRun.response.data.ethereum.usd,
                                              inr |-> oracleRun.response.data.ethereum.inr]
          /\ oracleRun.steps # <<>> /\ oracleRun.steps[1] = "price"
    /\ oracleRun.failedAt # "price"
    /\ oracleRun.command # <<>> =>
          oracleRun.command = <<BORROWER_ADDRESS, TEST_PRINCIPAL, TEST_TENURE, TEST_COLLATERAL,
                                oracleRun.prices.usd, oracleRun.prices.inr>>

\* After a rejected price request the run went on with 3000 / 250000 and its
\* score has been stored and read back.
C19_Witness ==
    /\ oracleRun.pc = "done"
    /\ oracleRun.response.status = "error"
    /\ oracleRun.command = <<BORROWER_ADDRESS, TEST_PRINCIPAL, TEST_TENURE, TEST_COLLATERAL,
                             FallbackUsd, FallbackInr>>
    /\ oracleRun.recordedScore = oracleRun.dynamicScore

AssignedRate(r) == r.state.loans[Len(r.state.loans)].interestRate

\* C20: the rate assigned to a loan depends on tenure and collateral ratio as
\* well as on the score: for a granted application there is another one by the
\* same caller under the same score, differing in tenure or in
\* collateral-to-principal ratio, that would have been granted a different rate.
C20_RateDependsOnTerms ==
    (Applied /\ lastCall.err = "ok") =>
       \E p \in AnyPrincipal, t \in AnyTenure, ca \in Amounts :
          LET other == applyForLoan(pre, lastCall.sender, IF NativeKind THEN ca ELSE 0,
                                    p, t, ca, lastCall.token)
          IN /\ (t # lastCall.tenure \/ ca * lastCall.principal # lastCall.amount * p)
             /\ other.err = "ok"
             /\ AssignedRate(other) # loans[Len(loans)].interestRate

\* C21: no applyForLoan ends in a division by zero: the last transaction did
\* not, and from the current state no caller with any arguments would.
C21_NoDivisionByZero ==
    /\ lastCall.err # "DivisionByZero"
    /\ \A u \in Users, v \in Amounts, ca \in Amounts, ct \in CollateralTokens :
          applyForLoan(State, u, v, TEST_PRINCIPAL, TEST_TENURE, ca, ct).err # "DivisionByZero"

\* A caller whose score the oracle has set to 0 applied with matching native
\* collateral and was refused before any rate was computed.
C21_Witness ==
    /\ Applied /\ NativeKind
    /\ lastCall.value = lastCall.amount
    /\ CallerScore = 0
    /\ scoreWriter[lastCall.sender] = trustedOracle
    /\ lastCall.err = "NotScored"

\* The first precondition of the last application that did not hold, taking
\* them in the order score, then (native) value match, or (token) whitelist,
\* zero native value, pull.
FirstFailure ==
    IF CallerScore = 0 THEN "NotScored"
    ELSE IF NativeKind
    THEN IF lastCall.value # lastCall.amount THEN "CollateralMismatch" ELSE "ok"
    ELSE IF ~pre.supportedCollateral[lastCall.token] THEN "UnsupportedCollateral"
    ELSE IF lastCall.value # 0 THEN "UnexpectedNativeValue"
    ELSE IF ~PullCovered THEN "TransferFailed"
    ELSE "ok"

\* C22: applyForLoan reports the first failing precondition in the order
\* score, whitelist, native value, token pull: an unscored caller gets
\* NotScored whatever the collateral; a scored caller with an unlisted token
\* and native value sent gets UnsupportedCollateral; the pull is attempted,
\* and can fail, only for a listed token with no native value sent.
C22_GuardOrder ==
    Applied =>
       /\ lastCall.err = FirstFailure
       /\ CallerScore = 0 => lastCall.err = "NotScored"
       /\ (Unlisted /\ lastCall.value > 0) => lastCall.err = "UnsupportedCollateral"
       /\ lastCall.err = "TransferFailed" =>
             /\ Scored1to100 /\ TokenKind
             /\ pre.supportedCollateral[lastCall.token]
             /\ lastCall.value = 0
       /\ balanceOf # pre.balanceOf => lastCall.err = "ok" /\ TokenKind

\* A scored caller offered an unlisted token, sent native value with it and
\* could not have covered the pull: the whitelist was what the call reported.
C22_Witness ==
    /\ Unlisted
    /\ lastCall.value > 0
    /\ lastCall.amount > 0
    /\ ~PullCovered
    /\ lastCall.err = "UnsupportedCollateral"

LastLoan == loans[Len(loans)]

\* C23: a successful applyForLoan emits exactly one LoanDisbursed whose loanId,
\* borrower, principal, rate, collateral token and collateral amount are those
\* of the loan the call appended (the id stored in the loan, one below the new
\* nextLoanId); a failed call emits nothing.
C23_DisbursedEvent ==
    /\ (Applied /\ lastCall.err = "ok") =>
          /\ Len(loans) = Len(pre.loans) + 1
          /\ lastEvents = <<LoanDisbursed(LastLoan.loanId, LastLoan.borrower, LastLoan.principal,
                                          LastLoan.interestRate, LastLoan.collateralToken,
                                          LastLoan.collateralAmount)>>
          /\ lastEvents[1].loanId = nextLoanId - 1
          /\ lastEvents[1].borrower = lastCall.sender
    /\ (lastCall.op \in LedgerOps /\ lastCall.err # "ok") => lastEvents = <<>>

\* The second loan has just been granted: its event carries id 2 while
\* nextLoanId is 3.
C23_Witness ==
    /\ Applied /\ lastCall.err = "ok"
    /\ Len(loans) = 2
    /\ Len(lastEvents) = 1
    /\ lastEvents[1].name = "LoanDisbursed"
    /\ lastEvents[1].loanId = 2
    /\ nextLoanId = 3

RECURSIVE SumOver(_, _)
SumOver(bal, hs) ==
    IF hs = {} THEN 0
    ELSE LET h == CHOOSE x \in hs : TRUE IN bal[h] + SumOver(bal, hs \ {h})

TotalSupply(bal) == SumOver(bal, Holders)

\* C24: a successful token application moves exactly the collateral amount
\* from the caller to the ledger: the caller's token balance falls by it, the
\* ledger's rises by it, the caller's allowance to the ledger falls by it
\* unless it is unlimited, and every other balance and allowance, all native
\* balances and the total supply stay as they were.
C24_TokenPull ==
    (Applied /\ lastCall.err = "ok" /\ TokenKind) =>
       /\ balanceOf[lastCall.sender] = pre.balanceOf[lastCall.sender] - lastCall.amount
       /\ balanceOf[This] = pre.balanceOf[This] + lastCall.amount
       /\ \A h \in Holders \ {lastCall.sender, This} : balanceOf[h] = pre.balanceOf[h]
       /\ allowance[lastCall.sender][This] =
             IF CallerAllowance = MaxUint256 THEN MaxUint256
             ELSE CallerAllowance - lastCall.amount
       /\ \A o \in Users \ {lastCall.sender} : allowance[o] = pre.allowance[o]
       /\ eth = pre.eth
       /\ TotalSupply(balanceOf) = TotalSupply(pre.balanceOf)

\* A positive amount has just been pulled against a finite allowance.
C24_Witness ==
    /\ Applied /\ lastCall.err = "ok" /\ TokenKind
    /\ lastCall.amount > 0
    /\ CallerAllowance # MaxUint256
    /\ allowance[lastCall.sender][This] = CallerAllowance - lastCall.amount
    /\ balanceOf[This] = pre.balanceOf[This] + lastCall.amount

\* collateral recorded in the loans ls whose collateral kind is `kind`
RECURSIVE Recorded(_, _)
Recorded(ls, kind) ==
    IF ls = <<>> THEN 0
    ELSE (IF Head(ls).collateralToken = kind THEN Head(ls).collateralAmount ELSE 0)
            + Recorded(Tail(ls), kind)

\* C25: the ledger's native balance equals the native collateral recorded in
\* its loans, its balance of each token is at least the collateral recorded in
\* that token, and no transaction lowers either holding.
C25_CustodyConserved ==
    /\ eth[This] = Recorded(loans, ZeroAddress)
    /\ \A tok \in TokenIds : balanceOf[This] >= Recorded(loans, tok)
    /\ eth[This] >= pre.eth[This]
    /\ balanceOf[This] >= pre.balanceOf[This]

\* The ledger holds native and token collateral of two loans and the
\* borrower's score has since been set to 0.
C25_Witness ==
    /\ Len(loans) = 2
    /\ Recorded(loans, ZeroAddress) > 0
    /\ Recorded(loans, USDC) > 0
    /\ eth[This] = Recorded(loans, ZeroAddress)
    /\ lastCall.op = "setRiskScore" /\ lastCall.err = "ok" /\ lastCall.score = 0
    /\ borrowerRiskScore[loans[1].borrower] = 0

\* C26: in every order of setRiskScore and applyForLoan transactions, the loan
\* an application appends has rate floor(100 / s) for the score s its borrower
\* had when that application ran; no later transaction, setRiskScore for the
\* same borrower included, changes the rate of a loan already stored; and an
\* application following one by another borrower gets the next loanId.
C26_RateAtApplication ==
    /\ (Applied /\ lastCall.err = "ok") =>
          /\ CallerScore > 0
          /\ LastLoan.borrower = lastCall.sender
          /\ IsFloorOf100Over(LastLoan.interestRate, CallerScore)
          /\ LastLoan.loanId = Len(pre.loans) + 1
    /\ \A i \in 1 .. Len(pre.loans) :
          /\ Len(loans) >= i
          /\ loans[i].interestRate = pre.loans[i].interestRate
          /\ loans[i].borrower = pre.loans[i].borrower
          /\ loans[i].loanId = i
    /\ \A i, j \in 1 .. Len(loans) :
          (i < j /\ loans[i].borrower # loans[j].borrower) =>
             loans[i].loanId < loans[j].loanId /\ loans[j].loanId - loans[i].loanId = j - i

\* Two borrowers hold loans 1 and 2; the first borrower's score was changed
\* after the first loan, which still carries the rate of the earlier score.
C26_Witness ==
    /\ Applied /\ lastCall.err = "ok"
    /\ Len(loans) = 2
    /\ loans[1].borrower # loans[2].borrower
    /\ loans[1].loanId = 1 /\ loans[2].loanId = 2
    /\ borrowerRiskScore[loans[1].borrower] > 0
    /\ loans[1].interestRate # finalRate(borrowerRiskScore[loans[1].borrower])
    /\ loans[2].interestRate = finalRate(borrowerRiskScore[loans[2].borrower])

RateMonotone ==
    \A s1, s2 \in 1 .. MaxScore : s1 < s2 => finalRate(s2) <= finalRate(s1)
UpperHalfIsOne == \A s \in 51 .. MaxScore : finalRate(s) = 1

\* C27: every stored loan has 1 <= interestRate <= 100; the rate does not
\* increase with the score over 1..100, and scores 51..100 all give rate 1.
C27_RateRange ==
    /\ \A i \in 1 .. Len(loans) : loans[i].interestRate \in 1 .. 100
    /\ (Applied /\ lastCall.err = "ok") => LastLoan.interestRate = finalRate(CallerScore)
    /\ RateMonotone
    /\ UpperHalfIsOne

\* The ledger holds a loan at the highest rate and one at the lowest, granted
\* under scores 1 and 100.
C27_Witness ==
    /\ Len(loans) = 2
    /\ {loans[1].interestRate, loans[2].interestRate} = {1, 100}
    /\ Applied /\ lastCall.err = "ok"
    /\ CallerScore \in {1, MaxScore}

\* C28: with the operations the contract has, every stored loan has
\* isRepaid = false and no transaction emits LoanRepaid.
C28_NeverRepaid ==
    /\ \A i \in 1 .. Len(loans) : ~loans[i].isRepaid
    /\ \A k \in 1 .. Len(lastEvents) : lastEvents[k].name # "LoanRepaid"

\* Loans by native and by token collateral are stored and a further
\* transaction of each of the contract's functions has run since.
C28_Witness ==
    /\ Len(loans) >= 2
    /\ \E i \in 1 .. Len(loans) : loans[i].collateralToken = ZeroAddress
    /\ \E i \in 1 .. Len(loans) : loans[i].collateralToken \in TokenIds
    /\ lastCall.op = "setRiskScore" /\ lastCall.err = "ok"
    /\ lastEvents # <<>>

\* C29: an ETH application submitted through the form by a scored user with a
\* positive collateral carries a native value equal to its collateralAmount
\* argument and is not rejected with CollateralMismatch.
C29_UiNativeValueMatches ==
    (Applied /\ NativeKind /\ CallerScore > 0 /\ lastCall.value > 0) =>
       /\ lastCall.value = lastCall.amount
       /\ lastCall.err # "CollateralMismatch"

StepOrder == <<"price", "model", "submit", "confirm", "read">>
IsPrefix(s, full) == Len(s) <= Len(full) /\ \A k \in 1 .. Len(s) : s[k] = full[k]
ModelRan == Len(oracleRun.steps) >= 2
ModelFailed ==
    \/ oracleRun.proc.error
    \/ ~oracleRun.proc.parses
    \/ "error" \in DOMAIN oracleRun.proc.json
    \/ "explanation" \notin DOMAIN oracleRun.proc.json
SubmitRan == Len(oracleRun.steps) >= 3
StoredScore == borrowerRiskScore[BORROWER_ADDRESS]

\* C30: a run of the script takes its steps in the order price lookup, risk
\* model, setRiskScore transaction, confirmation, read-back.  When the risk
\* model fails (process error, unparsable output, error field) or the ledger
\* rejects the transaction, the run stops at that step, the stored score is
\* the one the run started with, and the run ends in its catch.
C30_ScriptOrder ==
    /\ IsPrefix(oracleRun.steps, StepOrder)
    /\ oracleRun.pc \in {"price", "model", "submit", "confirm", "read", "done", "failed"}
    /\ (ModelRan /\ ModelFailed) =>
          /\ oracleRun.pc = "failed" /\ oracleRun.failedAt = "model"
          /\ oracleRun.steps = <<"price", "model">>
          /\ StoredScore = oracleRun.scoreAtStart
    /\ (SubmitRan /\ oracleRun.dynamicScore > MaxScore) =>
          /\ oracleRun.pc = "failed" /\ oracleRun.failedAt = "submit"
          /\ oracleRun.steps = <<"price", "model", "submit">>
          /\ lastCall.err = "InvalidScore"
          /\ StoredScore = oracleRun.scoreAtStart
    /\ oracleRun.pc = "failed" =>
          /\ oracleRun.failedAt \in {"model", "submit"}
          /\ oracleRun.steps[Len(oracleRun.steps)] = oracleRun.failedAt
          /\ oracleRun.recordedScore = Unset
          /\ StoredScore = oracleRun.scoreAtStart
    /\ oracleRun.pc = "done" =>
          /\ oracleRun.steps = StepOrder
          /\ oracleRun.recordedScore = oracleRun.dynamicScore
          /\ StoredScore = oracleRun.dynamicScore

\* After an earlier run stored 50, a run whose model returned 101 was refused
\* by the ledger and ended in the catch with 50 still stored.
C30_Witness ==
    /\ oracleRun.pc = "failed" /\ oracleRun.failedAt = "submit"
    /\ oracleRun.dynamicScore = MaxScore + 1
    /\ oracleRun.scoreAtStart = 50
    /\ StoredScore = 50
    /\ lastCall.err = "InvalidScore"

FetchFailed == ui.fetch.response.status \in {"rejected", "notOk", "badJson"}
FetchDone == ui.fetch.attempts >= 1

\* the loop as the code leaves it at each point
RetryLoopSafe ==
    /\ ui.fetch.attempts <= DefaultRetries + 1
    /\ ui.fetch.retries \in 0 .. DefaultRetries
    /\ ui.fetch.pc = "calling" => ui.fetch.attempts = DefaultRetries - ui.fetch.retries
    /\ ui.fetch.pc = "timer" =>
          /\ FetchFailed
          /\ ui.fetch.retries + 1 > 0
          /\ ui.fetch.attempts = DefaultRetries - ui.fetch.retries
    /\ (FetchDone /\ ~FetchFailed) => ui.fetch.pc = "idle"
    /\ (ui.fetch.pc = "idle" /\ FetchFailed) =>
          ui.fetch.retries = 0 /\ ui.fetch.attempts = DefaultRetries + 1

\* C31: the page's price loop, started with retries = 3, makes at most 4
\* requests; a retry is scheduled only after a failed request made with
\* retries > 0 and is called with retries - 1; after a request that succeeds
\* nothing more is scheduled; and the loop comes to rest.
C31_RetryLoopTerminates == []RetryLoopSafe /\ <>[](ui.fetch.pc = "idle")

\* The fourth request has failed and nothing further is scheduled.
C31_Witness ==
    /\ ui.fetch.pc = "idle"
    /\ FetchFailed
    /\ ui.fetch.attempts = 4
    /\ ui.fetch.retries = 0

HasSetPending(k) == ui.handlers[k].setPending

\* what holds of isTxPending at every point
PendingSafe ==
    /\ (\A k \in Slots : ~HasSetPending(k)) => ~ui.isTxPending
    /\ ui.isTxPending => submitDisabled(ui)

\* a handler that set isTxPending ends with it false, and no submission
\* starts while it is true
PendingSteps ==
    /\ (\E k \in Slots : HasSetPending(k) /\ ~ui.handlers[k].setPending') => ~ui.isTxPending'
    /\ (\E k \in Slots : ui.handlers[k].kind = "none" /\ ui.handlers[k].kind' = "apply")
          => ~ui.isTxPending

\* C32: a handler that has set isTxPending comes to its finally on every path
\* (confirmed, refused, failed, returned for want of allowance), after which
\* isTxPending is false; once no handler that set it is running it is false;
\* and while it is true the submit button is disabled.
C32_PendingResets ==
    /\ []PendingSafe
    /\ [][PendingSteps]_vars
    /\ \A k \in Slots : HasSetPending(k) ~> ~HasSetPending(k)

\* The approval was confirmed and read back (fetchUsdcData runs after
\* tx.wait() only), a loan was taken, every handler is over and isTxPending
\* is false.
C32_Witness ==
    /\ ui.usdcAllowance > 0
    /\ Len(loans) >= 1
    /\ ~ui.isTxPending
    /\ \A k \in Slots : ui.handlers[k].kind = "none"

====
